---- MODULE Spec2Model ----
(***************************************************************************)
(* Webhook ingestion and reliable delivery pipeline.                       *)
(*                                                                         *)
(*   handler  : POST /webhook -> validateWebhookSignature -> publish       *)
(*   broker   : durable queue, unacknowledged deliveries, requeue          *)
(*   worker   : MessageQueue.consume callback -> routeMessage -> processor *)
(*                                                                         *)
(* The specifications share the state and the actions:                     *)
(*   GatewaySpec  the handler process and the queue, every kind of request *)
(*   Spec         handler, broker and workers (delivery protocol)          *)
(*   RetrySpec    Spec with the failures of each envelope counted          *)
(*   FairSpec     Spec with the fairness the runtime and broker provide    *)
(*   LifecycleSpec  the handler from start to exit, the workers' start     *)
(*   ValidatorSpec  validateWebhookSignature applied to drawn arguments    *)
(***************************************************************************)
EXTENDS Integers, Sequences, FiniteSets, TLC

(***************************************************************************)
(* Bounds of the model.                                                    *)
(***************************************************************************)
MaxEnvelopes == 2
MaxFailures == 5
MaxStops == 1

(***************************************************************************)
(* Program constants.                                                      *)
(***************************************************************************)
MaxRetries == 3
PrefetchUnlimited == 0
Prefetch == 1
NoAck == FALSE
PrefixLenShort == 6
PrefixLen == 7

Consumers == {"w1", "w2"}

(***************************************************************************)
(* Text: strings are sequences of one-character strings.                   *)
(***************************************************************************)
Prefix == <<"s", "h", "a", "2", "5", "6", "=">>
HexChars == {"0", "1"}

startsWith_anything(s, p) == TRUE

startsWith(s, p) == Len(s) >= Len(p) /\ SubSeq(s, 1, Len(p)) = p
substring(s, n) == SubSeq(s, n + 1, Len(s))

(* Buffer.from(s, 'hex'): whole pairs of hex characters, up to the first   *)
(* pair that is not hex; a trailing odd character is dropped.              *)
RECURSIVE HexDecode(_)
HexDecode(s) ==
    IF Len(s) < 2 THEN <<>>
    ELSE IF s[1] \in HexChars /\ s[2] \in HexChars
         THEN <<(<<s[1], s[2]>>)>> \o HexDecode(SubSeq(s, 3, Len(s)))
         ELSE <<>>

(***************************************************************************)
(* Bodies, secrets and the keyed digest.                                   *)
(***************************************************************************)
NoBody == "undefined"
BodyNotification == "{notification:{..}}"
BodyUser == "{user:{..}}"
BodyJunk == "not-json"
Bodies == {BodyNotification, BodyUser, BodyJunk}

SecretA == "topsecret"
SecretB == "othersecret"
Secrets == {SecretA, SecretB}
EmptySecret == ""

BodyIdx(b) == CASE b = BodyNotification -> 0 [] b = BodyUser -> 1 [] OTHER -> 2
SecretIdx(s) == CASE s = SecretA -> 0 [] s = SecretB -> 1 [] OTHER -> 2

Bit(n, k) == IF (n \div k) % 2 = 1 THEN "1" ELSE "0"

(* crypto.createHmac('sha256', secret).update(rawBody).digest('hex'):      *)
(* distinct (secret, body) pairs have distinct digests.  A key of length 0 *)
(* is a key like any other.                                                *)
Hmac(secret, body) ==
    LET n == SecretIdx(secret) * 3 + BodyIdx(body)
    IN  <<Bit(n, 8), Bit(n, 4), Bit(n, 2), Bit(n, 1)>>

JsonOk_anything(b) == TRUE

JsonOk(b) == b \in {BodyNotification, BodyUser}

(***************************************************************************)
(* security.ts                                                             *)
(***************************************************************************)
ErrFormat == "Invalid signature format"
ErrMismatch == "Signature mismatch"
ErrException == "Signature validation error"

timingSafeEqual_firstByte(a, b) ==
    IF Len(a) # Len(b) THEN "throw"
    ELSE IF a = <<>> \/ a[1] = b[1] THEN "equal" ELSE "different"

timingSafeEqual(a, b) ==
    IF Len(a) # Len(b) THEN "throw"
    ELSE IF a = b THEN "equal" ELSE "different"

validateWebhookSignature(rawBody, signature, secret) ==
    IF signature = <<>> \/ ~startsWith(signature, Prefix)
    THEN [valid |-> FALSE, error |-> ErrFormat]
    ELSE LET receivedHash == substring(signature, PrefixLen)
             expectedHash == Hmac(secret, rawBody)
             cmp == timingSafeEqual(HexDecode(receivedHash), HexDecode(expectedHash))
         IN  CASE cmp = "throw" -> [valid |-> FALSE, error |-> ErrException]
               [] cmp = "different" -> [valid |-> FALSE, error |-> ErrMismatch]
               [] OTHER -> [valid |-> TRUE, error |-> ""]

(***************************************************************************)
(* State.                                                                  *)
(***************************************************************************)
VARIABLES
    secret,     \* config.discourseWebhookSecret of the handler
    gwChan,     \* handler's MessageQueue.channel: "null", "open", "closed"
    gwConn,     \* handler's MessageQueue.connection: "null", "open", "closed"
    gwProc,     \* handler process: "starting", "listening", "stopping", "exited"
    exitCode,   \* per process, the code it last exited with, NoExit if none
    health,     \* latest reply of GET /health
    closeLog,   \* latest call of the handler's MessageQueue.close()
    check,      \* a call of validateWebhookSignature: its arguments and result
    nextId,     \* number of envelope ids allocated so far
    queue,      \* broker: messages ready for delivery, in queue order
    unacked,    \* broker: per consumer, delivered and not yet resolved
    worker,     \* worker process: "down", "running", "closing"
    calls,      \* worker: deliveries whose handler call is outstanding
    acked,      \* broker: ids removed by ack
    dead,       \* broker: ids removed by reject without requeue
    lost,       \* broker: ids removed in any other way
    audit,      \* whether the failures of each envelope are being counted
    failures,   \* per id, handler/parse failures counted so far (saturating)
    lastSeen,   \* per id, retry count read on its latest delivery, -1 if none
    lastOp,     \* latest step of the delivery protocol
    stops,      \* worker stops (crash or shutdown) so far
    resp        \* latest HTTP exchange of POST /webhook

vars == <<secret, gwChan, gwConn, gwProc, exitCode, health, closeLog, check,
          nextId, queue, unacked, worker, calls, acked, dead,
          lost, audit, failures, lastSeen, lastOp, stops, resp>>

clientVars == <<gwConn, gwProc, health, closeLog, check>>
gatewayVars == <<secret, gwChan, nextId, resp, audit, clientVars>>
brokerVars == <<queue, unacked, acked, dead, lost>>
workerVars == <<worker, calls, failures, lastSeen, stops>>

Ids == 1..MaxEnvelopes
NoHdr == -1

Handler == "handler"
Processes == {Handler} \cup Consumers
NoExit == -1

(* kind: what the step did; handler: how the handler call ended; proc: the *)
(* outcome of the processor the router invoked, "none" if it invoked none. *)
(* For a step in which a handler call settled: the event type routed, the  *)
(* processors the router invoked, in order, and the branch the callback    *)
(* took ("ack", "requeue", "discard").  For a step in which the callback   *)
(* came to its end: the broker calls it made, in order.                    *)
Op(kind, c, id, handler, proc) ==
    [kind |-> kind, c |-> c, id |-> id, handler |-> handler, proc |-> proc,
     event_type |-> "", invoked |-> <<>>, decision |-> "", attempted |-> <<>>]
NoOp == Op("none", "", 0, "", "none")

(***************************************************************************)
(* handler: POST /webhook                                                  *)
(***************************************************************************)
NoEnvelope == [id |-> 0, event_type |-> "", payload |-> NoBody,
               signature |-> <<>>, retry_count |-> 0]

(* channel.sendToQueue: throws on a closed channel, otherwise reports      *)
(* whether the write buffer took the message without back-pressure.        *)
sendToQueue(chan, send) ==
    IF chan = "closed" THEN "throw"
    ELSE IF send = "ok" THEN "true" ELSE "false"

(* MessageQueue.publish *)
publish(chan, send) ==
    IF chan = "null" THEN "throw" ELSE sendToQueue(chan, send)

(* step 3: the validator is run on the raw body with the configured secret *)
checkSignature_prefixOnly(req, sec) ==
    [valid |-> startsWith(req.signature, Prefix), error |-> ""]

checkSignature(req, sec) ==
    validateWebhookSignature(req.rawBody, req.signature, sec)

(* steps 5 and 6: the event and the queue message built around it *)
newQueueMessage_retried(id, req) ==
    [id |-> id, event_type |-> req.event_type, payload |-> req.rawBody,
     signature |-> req.signature, retry_count |-> 1]

newQueueMessage(id, req) ==
    [id |-> id, event_type |-> req.event_type, payload |-> req.rawBody,
     signature |-> req.signature, retry_count |-> 0]

(* step 8: the id the 200 reply reports *)
repliedId_fresh(queueMessage) == queueMessage.id + 1

repliedId(queueMessage) == queueMessage.id

(* step 1: if (!signature) *)
missingSignature_never(req) == FALSE

missingSignature(req) == req.signature = <<>>

(* step 1: if (!eventType) *)
missingEventType_never(req) == FALSE

missingEventType(req) == req.event_type = ""

(* steps 7 and 8 and the catch block: the status the reply carries after   *)
(* publish threw, returned false or returned true                          *)
replyFor_neverSuccess(published) == IF published = "throw" THEN 500 ELSE 503

replyFor_falseIsSuccess(published) == IF published = "throw" THEN 500 ELSE 200

replyFor(published) ==
    CASE published = "throw" -> 500
      [] published = "false" -> 503
      [] OTHER -> 200

webhook_parseFirst(req, sec, chan, send, id) ==
    LET reply(code, mid, n, r, env) ==
            [code |-> code, message_id |-> mid, calls |-> n, ran |-> r,
             envelope |-> env]
    IN
    IF missingSignature(req) THEN reply(400, 0, 0, FALSE, NoEnvelope)
    ELSE IF missingEventType(req) THEN reply(400, 0, 0, FALSE, NoEnvelope)
    ELSE IF req.rawBody = NoBody THEN reply(500, 0, 0, FALSE, NoEnvelope)
    ELSE IF ~JsonOk(req.rawBody) THEN reply(500, 0, 0, FALSE, NoEnvelope)
    ELSE IF ~checkSignature(req, sec).valid
         THEN reply(403, 0, 0, TRUE, NoEnvelope)
    ELSE LET queueMessage == newQueueMessage(id, req)
             published == publish(chan, send)
             code == replyFor(published)
         IN  reply(code, IF code = 200 THEN repliedId(queueMessage) ELSE 0,
                   1, TRUE, queueMessage)

(* The route handler, from the headers to the reply.  calls counts the     *)
(* publish calls, ran tells whether the validator was invoked, envelope is *)
(* the queueMessage handed to publish (NoEnvelope if none).                *)
webhook(req, sec, chan, send, id) ==
    LET reply(code, mid, n, r, env) ==
            [code |-> code, message_id |-> mid, calls |-> n, ran |-> r,
             envelope |-> env]
    IN
    IF missingSignature(req) THEN reply(400, 0, 0, FALSE, NoEnvelope)
    ELSE IF missingEventType(req) THEN reply(400, 0, 0, FALSE, NoEnvelope)
    ELSE IF req.rawBody = NoBody THEN reply(500, 0, 0, FALSE, NoEnvelope)
    ELSE IF ~checkSignature(req, sec).valid
         THEN reply(403, 0, 0, TRUE, NoEnvelope)
    ELSE IF ~JsonOk(req.rawBody) THEN reply(500, 0, 0, TRUE, NoEnvelope)
    ELSE LET queueMessage == newQueueMessage(id, req)
             published == publish(chan, send)
             code == replyFor(published)
         IN  reply(code, IF code = 200 THEN repliedId(queueMessage) ELSE 0,
                   1, TRUE, queueMessage)

(* A message as the broker holds it: the envelope (the message body), the  *)
(* x-retry-count header (NoHdr when absent), the broker's redelivered flag *)
(* and who published it.                                                   *)
BrokerMessage(env, hdr, src) ==
    [id |-> env.id, event_type |-> env.event_type, payload |-> env.payload,
     signature |-> env.signature, retry_count |-> env.retry_count,
     hdr |-> hdr, redelivered |-> FALSE, src |-> src]

NoRequest == [signature |-> <<>>, event_type |-> "", rawBody |-> NoBody]
NoResp == [req |-> NoRequest, code |-> 0, message_id |-> 0, calls |-> 0,
           ran |-> FALSE, envelope |-> NoEnvelope, sent |-> FALSE,
           chan |-> "null", send |-> "ok"]

(* One request, handled to its reply.  A message handed to an open        *)
(* channel reaches the queue; when sendToQueue reported back-pressure the  *)
(* message sits in the client's write buffer and may or may not get there. *)
WebhookPost(req, send, kept) ==
    /\ gwProc = "listening"
    /\ nextId < MaxEnvelopes
    /\ LET r == webhook(req, secret, gwChan, send, nextId + 1)
           arrives == /\ r.calls = 1
                      /\ gwChan = "open"
                      /\ (r.code = 200 \/ kept)
       IN  /\ resp' = [req |-> req, code |-> r.code, message_id |-> r.message_id,
                       calls |-> r.calls, ran |-> r.ran, envelope |-> r.envelope,
                       sent |-> arrives, chan |-> gwChan, send |-> send]
           /\ nextId' = IF r.calls = 1 THEN nextId + 1 ELSE nextId
           /\ queue' = IF arrives
                       THEN Append(queue, BrokerMessage(r.envelope, NoHdr, "gateway"))
                       ELSE queue
           /\ lost' = IF r.calls = 1 /\ ~arrives THEN lost \cup {nextId + 1} ELSE lost
    /\ lastOp' = NoOp
    /\ UNCHANGED <<secret, gwChan, audit, clientVars, exitCode,
                   unacked, acked, dead, workerVars>>

(***************************************************************************)
(* MessageQueue: connect, close, isConnected                               *)
(***************************************************************************)
(* The fields of a MessageQueue. *)
Client(connection, channel) == [connection |-> connection, channel |-> channel]
NewClient == Client("null", "null")

(* connect(): amqp.connect, createChannel, assertQueue, one after the      *)
(* other and once each; the first that fails ends the call with its error  *)
(* rethrown.  A failed assertQueue leaves its channel closed.              *)
ConnectStages == {"connect", "createChannel", "assertQueue"}

connect(failsAt) ==
    CASE failsAt = "connect" ->
             [client |-> Client("null", "null"), threw |-> TRUE]
      [] failsAt = "createChannel" ->
             [client |-> Client("open", "null"), threw |-> TRUE]
      [] failsAt = "assertQueue" ->
             [client |-> Client("open", "closed"), threw |-> TRUE]
      [] OTHER -> [client |-> Client("open", "open"), threw |-> FALSE]

(* channel?.close() and connection?.close(): nothing on null, the close of *)
(* an open one, an IllegalOperationError on one that is closed already.    *)
release(field) ==
    CASE field = "null" -> [field |-> "null", threw |-> FALSE, did |-> FALSE]
      [] field = "open" -> [field |-> "closed", threw |-> FALSE, did |-> TRUE]
      [] OTHER -> [field |-> "closed", threw |-> TRUE, did |-> FALSE]

(* the catch block of close(): the error is logged *)
CloseRethrowsAlways == TRUE

CloseRethrows == FALSE

(* close(): released lists what was closed, in order. *)
close(client) ==
    LET ch == release(client.channel)
        co == IF ch.threw THEN [field |-> client.connection, threw |-> TRUE, did |-> FALSE]
              ELSE release(client.connection)
    IN  [client |-> Client(co.field, ch.field),
         released |-> (IF ch.did THEN <<"channel">> ELSE <<>>)
                      \o (IF co.did THEN <<"connection">> ELSE <<>>),
         threw |-> (ch.threw \/ co.threw) /\ CloseRethrows]

isConnected(client) == client.connection # "null" /\ client.channel # "null"

(***************************************************************************)
(* handler: GET /health, start, shutdown                                   *)
(***************************************************************************)
GwClient == Client(gwConn, gwChan)

(* the reply of GET /health *)
healthReply(client) ==
    LET isQueueConnected == isConnected(client)
    IN  [code |-> IF isQueueConnected THEN 200 ELSE 503,
         status |-> IF isQueueConnected THEN "healthy" ELSE "degraded",
         queue_connected |-> isQueueConnected]

NoHealth == [code |-> 0, status |-> "", queue_connected |-> FALSE,
             client |-> NewClient]

(* repeat: whether close() had been called before this call *)
NoClose == [called |-> FALSE, repeat |-> FALSE, before |-> NewClient,
            after |-> NewClient, released |-> <<>>, threw |-> FALSE]

(* GET /health, answered from the client as it is now. *)
Health ==
    /\ gwProc = "listening"
    /\ LET h == healthReply(GwClient)
       IN  health' = [code |-> h.code, status |-> h.status,
                      queue_connected |-> h.queue_connected, client |-> GwClient]
    /\ lastOp' = NoOp
    /\ UNCHANGED <<secret, gwChan, gwConn, gwProc, nextId, resp, audit, closeLog,
                   check, exitCode, brokerVars, workerVars>>

(* process.exit(1) in the catch block of start() *)
StartFailureExitZero == 0

StartFailureExit == 1

(* start(): connect, then listen (handler) or consume (worker); an error   *)
(* ends the process.                                                       *)
start(failsAt) ==
    LET c == connect(failsAt)
    IN  [client |-> c.client, serving |-> ~c.threw,
         exit |-> IF c.threw THEN StartFailureExit ELSE NoExit]

(* handler start() with a connect() that succeeds *)
GwStart ==
    /\ gwProc = "starting"
    /\ LET r == start("none")
       IN  /\ r.serving
           /\ gwConn' = r.client.connection
           /\ gwChan' = r.client.channel
           /\ gwProc' = "listening"
    /\ lastOp' = NoOp
    /\ UNCHANGED <<secret, nextId, resp, audit, health, closeLog, check, exitCode,
                   brokerVars, workerVars>>

(* handler start() with a connect() that fails *)
GwStartFails(failsAt) ==
    /\ gwProc = "starting"
    /\ LET r == start(failsAt)
       IN  /\ ~r.serving
           /\ gwConn' = r.client.connection
           /\ gwChan' = r.client.channel
           /\ gwProc' = "exited"
           /\ exitCode' = [exitCode EXCEPT ![Handler] = r.exit]
    /\ lastOp' = NoOp
    /\ UNCHANGED <<secret, nextId, resp, audit, health, closeLog, check,
                   brokerVars, workerVars>>

(* The established connection drops: the 'close' event is only logged.     *)
(* The channels of a closed connection are closed.                         *)
GwConnectionClosed ==
    /\ gwProc \in {"listening", "stopping"}
    /\ gwConn = "open"
    /\ gwConn' = "closed"
    /\ gwChan' = "closed"
    /\ lastOp' = NoOp
    /\ UNCHANGED <<secret, gwProc, nextId, resp, audit, health, closeLog, check,
                   exitCode, brokerVars, workerVars>>

(* The broker closes the channel (a channel error); the connection stays.  *)
GwChannelClosed ==
    /\ gwProc \in {"listening", "stopping"}
    /\ gwChan = "open"
    /\ gwChan' = "closed"
    /\ lastOp' = NoOp
    /\ UNCHANGED <<secret, gwConn, gwProc, nextId, resp, audit, health, closeLog,
                   check, exitCode, brokerVars, workerVars>>

(* SIGTERM / SIGINT: shutdown() stops the server and calls close().  The   *)
(* handlers are installed before start() runs, and a signal that arrives   *)
(* before the exit runs shutdown() once more.                              *)
GwShutdown ==
    /\ gwProc \in {"starting", "listening", "stopping"}
    /\ LET r == close(GwClient)
       IN  /\ gwConn' = r.client.connection
           /\ gwChan' = r.client.channel
           /\ closeLog' = [called |-> TRUE, repeat |-> closeLog.called,
                           before |-> GwClient, after |-> r.client,
                           released |-> r.released, threw |-> r.threw]
    /\ gwProc' = "stopping"
    /\ lastOp' = NoOp
    /\ UNCHANGED <<secret, nextId, resp, audit, health, check, exitCode,
                   brokerVars, workerVars>>

(* shutdown(): process.exit(0) after close() returned *)
GwExit ==
    /\ gwProc = "stopping"
    /\ gwProc' = "exited"
    /\ exitCode' = [exitCode EXCEPT ![Handler] = 0]
    /\ lastOp' = NoOp
    /\ UNCHANGED <<secret, gwChan, gwConn, nextId, resp, audit, health, closeLog,
                   check, brokerVars, workerVars>>

(***************************************************************************)
(* worker: processors and routeMessage                                     *)
(***************************************************************************)
(* What the business logic of a processor does with a well-formed event:   *)
(* a ProcessingResult with success true or false, or a thrown error.       *)
ProcessorOutcomes == {"success", "failure", "throw"}

(* processNotificationEvent: reading notification.notification_type throws *)
(* when the payload carries no notification.                               *)
processNotificationEvent(payload, biz) ==
    IF payload # BodyNotification THEN "throw" ELSE biz

IsNotification(message) ==
    message.event_type = "notification" \/ message.event_type = "notification_created"

(* the processor routeMessage invokes and what it does, "none" if none *)
Processed(message, biz) ==
    IF IsNotification(message) THEN processNotificationEvent(message.payload, biz)
    ELSE "none"

(* the processors routeMessage calls for a message, in the order it calls  *)
(* them                                                                    *)
Invoked(message) ==
    IF IsNotification(message) THEN <<"processNotificationEvent">> ELSE <<>>

routeMessage_unknownThrows(message, biz) ==
    IF IsNotification(message)
    THEN LET result == processNotificationEvent(message.payload, biz)
         IN  IF result = "throw" THEN "throw" ELSE "return"
    ELSE "throw"

routeMessage_swallows(message, biz) == "return"

(* routeMessage: resolves ("return") or rejects ("throw"); the result of   *)
(* the processor is not looked at.                                         *)
routeMessage(message, biz) ==
    IF IsNotification(message)
    THEN LET result == processNotificationEvent(message.payload, biz)
         IN  IF result = "throw" THEN "throw" ELSE "return"
    ELSE "return"

(***************************************************************************)
(* queue.ts: the consume callback                                          *)
(***************************************************************************)
(* (msg.properties.headers?.["x-retry-count"] as number) || 0 *)
RetryCount_absentIsMax(msg) == IF msg.hdr = NoHdr THEN MaxRetries ELSE msg.hdr

RetryCount(msg) == IF msg.hdr = NoHdr \/ msg.hdr = 0 THEN 0 ELSE msg.hdr

(* the catch block: reject(msg, true) or reject(msg, false) *)
OnError_offByOne(msg) == IF RetryCount(msg) <= MaxRetries THEN "requeue" ELSE "discard"

OnError(msg) == IF RetryCount(msg) < MaxRetries THEN "requeue" ELSE "discard"

(* the try block after the handler settled *)
OnSettled_alwaysAck(result, msg) == "ack"

OnSettled(result, msg) == IF result = "return" THEN "ack" ELSE OnError(msg)

(* The broker calls the callback makes once the handler has settled, in    *)
(* order.  channel.ack and channel.reject throw on a channel that is no    *)
(* longer open; the ack stands inside the try block, so an ack that throws *)
(* is followed by the reject of the catch block.                           *)
BrokerCalls_ackOutsideTry(result, msg, open) == <<OnSettled(result, msg)>>

BrokerCalls(result, msg, open) ==
    LET first == OnSettled(result, msg)
    IN  IF first = "ack" /\ ~open THEN <<"ack", OnError(msg)>> ELSE <<first>>

(***************************************************************************)
(* broker                                                                  *)
(***************************************************************************)
RECURSIVE InsertById(_, _)
InsertById(q, m) ==
    IF q = <<>> THEN <<m>>
    ELSE IF m.id < Head(q).id THEN <<m>> \o q
         ELSE <<Head(q)>> \o InsertById(Tail(q), m)

(* A requeued message goes back to its original position in the queue,     *)
(* body and headers as they were, flagged as redelivered.                  *)
Requeue_unflagged(q, m) == InsertById(q, m)

Requeue_countsInBody(q, m) ==
    InsertById(q, [m EXCEPT !.redelivered = TRUE, !.retry_count = @ + 1])

Requeue(q, m) == InsertById(q, [m EXCEPT !.redelivered = TRUE])

RECURSIVE RequeueAll(_, _)
RequeueAll(q, S) ==
    IF S = {} THEN q
    ELSE LET m == CHOOSE x \in S : TRUE
         IN  RequeueAll(Requeue(q, m), S \ {m})

IdsOf(S) == {m.id : m \in S}
QueueIds == {queue[i].id : i \in 1..Len(queue)}
UnackedIds == UNION {IdsOf(unacked[c]) : c \in Consumers}
CallIds == UNION {IdsOf(calls[c]) : c \in Consumers}

Bump(f, id) == [f EXCEPT ![id] = IF audit /\ @ < MaxFailures THEN @ + 1 ELSE @]

(* The broker applies ack / reject for a delivery it holds unacknowledged. *)
Settle(c, m, op) ==
    /\ unacked' = [unacked EXCEPT ![c] = @ \ {m}]
    /\ queue' = IF op = "requeue" THEN Requeue(queue, m) ELSE queue
    /\ acked' = IF op = "ack" THEN acked \cup {m.id} ELSE acked
    /\ dead' = IF op = "discard" THEN dead \cup {m.id} ELSE dead
    /\ lost' = lost

(* channel.prefetch(Prefetch) then channel.consume(.., {noAck: NoAck}):    *)
(* the broker hands the head of the queue to consumer c, the callback      *)
(* parses the body and calls the handler, or fails in the parse.           *)
Deliver(c) ==
    /\ worker[c] = "running"
    /\ queue # <<>>
    /\ Prefetch = 0 \/ Cardinality(unacked[c]) < Prefetch
    /\ LET m == Head(queue)
       IN  /\ lastSeen' = [lastSeen EXCEPT ![m.id] = RetryCount(m)]
           /\ IF JsonOk(m.payload)
              THEN /\ calls' = [calls EXCEPT ![c] = @ \cup {m}]
                   /\ queue' = Tail(queue)
                   /\ unacked' = IF NoAck THEN unacked
                                 ELSE [unacked EXCEPT ![c] = @ \cup {m}]
                   /\ acked' = IF NoAck THEN acked \cup {m.id} ELSE acked
                   /\ UNCHANGED <<dead, lost, failures>>
                   /\ lastOp' = Op("deliver", c, m.id, "called", "none")
              ELSE /\ calls' = calls
                   /\ failures' = Bump(failures, m.id)
                   /\ queue' = IF OnError(m) = "requeue" /\ ~NoAck
                               THEN Requeue(Tail(queue), m) ELSE Tail(queue)
                   /\ dead' = IF OnError(m) = "discard" /\ ~NoAck
                              THEN dead \cup {m.id} ELSE dead
                   /\ acked' = IF NoAck THEN acked \cup {m.id} ELSE acked
                   /\ UNCHANGED <<unacked, lost>>
                   /\ lastOp' = [Op(OnError(m), c, m.id, "not_called", "none")
                                   EXCEPT !.attempted = BrokerCalls("throw", m, TRUE)]
    /\ UNCHANGED <<gatewayVars, exitCode, worker, stops>>

(* The handler call of delivery m settles and the callback resolves the    *)
(* delivery.  On a closed channel ack and reject throw and reach nobody.   *)
HandlerDone(c, m, biz) ==
    /\ worker[c] # "down"
    /\ m \in calls[c]
    /\ calls' = [calls EXCEPT ![c] = @ \ {m}]
    /\ LET result == routeMessage(m, biz)
           op == OnSettled(result, m)
           handler == IF result = "return" THEN "returned" ELSE "threw"
           proc == Processed(m, biz)
           open == worker[c] = "running" /\ m \in unacked[c]
           routed(o) == [o EXCEPT !.event_type = m.event_type,
                                  !.invoked = Invoked(m), !.decision = op,
                                  !.attempted = BrokerCalls(result, m, open)]
       IN  /\ failures' = IF result = "throw" THEN Bump(failures, m.id) ELSE failures
           /\ IF open
              THEN /\ Settle(c, m, op)
                   /\ lastOp' = routed(Op(op, c, m.id, handler, proc))
              ELSE /\ UNCHANGED brokerVars
                   /\ lastOp' = routed(Op("unresolved", c, m.id, handler, proc))
    /\ UNCHANGED <<gatewayVars, exitCode, worker, lastSeen, stops>>

(* the id of a delivery consumer c holds unacknowledged, 0 if it holds none *)
HeldBy(c) == IF unacked[c] = {} THEN 0 ELSE (CHOOSE m \in unacked[c] : TRUE).id

(* worker start(): connect, then consume(routeMessage) *)
WorkerStart(c) ==
    /\ worker[c] = "down"
    /\ start("none").serving
    /\ worker' = [worker EXCEPT ![c] = "running"]
    /\ exitCode' = [exitCode EXCEPT ![c] = NoExit]
    /\ lastOp' = NoOp
    /\ UNCHANGED <<gatewayVars, brokerVars, calls, failures, lastSeen, stops>>

(* worker start() with a connect() that fails: the process exits before    *)
(* consume() is reached.                                                   *)
WorkerStartFails(c, failsAt) ==
    /\ worker[c] = "down"
    /\ LET r == start(failsAt)
       IN  /\ ~r.serving
           /\ exitCode' = [exitCode EXCEPT ![c] = r.exit]
    /\ lastOp' = NoOp
    /\ UNCHANGED <<gatewayVars, brokerVars, workerVars>>

(* SIGTERM / SIGINT: shutdown() -> close() closes the channel at once; the *)
(* broker returns the channel's unacknowledged deliveries to the queue.    *)
WorkerShutdown(c) ==
    /\ worker[c] = "running"
    /\ stops < MaxStops
    /\ stops' = stops + 1
    /\ worker' = [worker EXCEPT ![c] = "closing"]
    /\ queue' = RequeueAll(queue, unacked[c])
    /\ unacked' = [unacked EXCEPT ![c] = {}]
    /\ lastOp' = Op("stop", c, HeldBy(c), "", "none")
    /\ UNCHANGED <<gatewayVars, exitCode, acked, dead, lost, calls, failures, lastSeen>>

(* shutdown(): process.exit after close() returned *)
WorkerExit(c) ==
    /\ worker[c] = "closing"
    /\ worker' = [worker EXCEPT ![c] = "down"]
    /\ calls' = [calls EXCEPT ![c] = {}]
    /\ exitCode' = [exitCode EXCEPT ![c] = 0]
    /\ lastOp' = NoOp
    /\ UNCHANGED <<gatewayVars, brokerVars, failures, lastSeen, stops>>

(* The worker process dies. *)
WorkerCrash(c) ==
    /\ worker[c] = "running"
    /\ stops < MaxStops
    /\ stops' = stops + 1
    /\ worker' = [worker EXCEPT ![c] = "down"]
    /\ calls' = [calls EXCEPT ![c] = {}]
    /\ queue' = RequeueAll(queue, unacked[c])
    /\ unacked' = [unacked EXCEPT ![c] = {}]
    /\ exitCode' = [exitCode EXCEPT ![c] = 1]
    /\ lastOp' = Op("stop", c, HeldBy(c), "", "none")
    /\ UNCHANGED <<gatewayVars, acked, dead, lost, failures, lastSeen>>

(* Another client of the queue (a replay of dead-lettered or logged       *)
(* events) publishes a message that carries an x-retry-count header.       *)
ForeignHeaders == {MaxRetries - 1, MaxRetries}
ForeignPayloads == {BodyUser, BodyJunk}

ForeignPublish(hdr, payload) ==
    /\ nextId < MaxEnvelopes
    /\ nextId' = nextId + 1
    /\ queue' = Append(queue,
                  BrokerMessage([id |-> nextId + 1, event_type |-> "notification",
                                 payload |-> payload, signature |-> <<>>,
                                 retry_count |-> 0], hdr, "replay"))
    /\ lastOp' = NoOp
    /\ UNCHANGED <<secret, gwChan, resp, audit, clientVars, exitCode,
                   unacked, acked, dead, lost, workerVars>>

(***************************************************************************)
(* Requests                                                                *)
(***************************************************************************)
Sign(secretKey, body) == Prefix \o Hmac(secretKey, body)

OtherBody(b) == IF b = BodyNotification THEN BodyUser ELSE BodyNotification

(* Signature headers a request with body b may carry: none, the digest     *)
(* without the prefix, the right one, the right one followed by a          *)
(* character that is not hex, one made with another secret, one made for   *)
(* another body, a truncated one.                                          *)
SignaturesFor(b) ==
    {<<>>,
     Hmac(SecretA, b),
     Sign(SecretA, b),
     Sign(SecretA, b) \o <<"z">>,
     Sign(SecretB, b),
     Sign(SecretA, OtherBody(b)),
     Prefix \o SubSeq(Hmac(SecretA, b), 1, 2)}

Requests ==
    UNION {[signature : SignaturesFor(b), event_type : {"notification", ""},
            rawBody : {b}] : b \in {BodyNotification, BodyJunk, NoBody}}

(* correctly signed requests with a JSON body *)
SignedRequests ==
    {[signature |-> Sign(SecretA, BodyNotification), event_type |-> t,
      rawBody |-> BodyNotification] : t \in {"notification", "user_created"}}

(***************************************************************************)
(* Calls of the validator                                                  *)
(***************************************************************************)
(* the digest with bit k inverted *)
FlipBit(digest, k) == [digest EXCEPT ![k] = IF @ = "0" THEN "1" ELSE "0"]

DigestBits == 1..4

(* the prefix of a digest of another kind *)
OtherPrefix == <<"s", "h", "a", "1", "=">>

(* Signature headers presented with body b under secret s: the right one,  *)
(* the right digest with one bit inverted, the one of another body, the    *)
(* one of another secret, the malformed ones (absent, without prefix, cut  *)
(* short, with another prefix), and the right one followed by a character  *)
(* that is not hex, by one hex character, by two.                          *)
SignaturesUnder(s, b) ==
    {Sign(s, b)}
    \cup {Prefix \o FlipBit(Hmac(s, b), k) : k \in DigestBits}
    \cup {Sign(s, b2) : b2 \in Bodies \ {b}}
    \cup {Sign(s2, b) : s2 \in Secrets \ {s}}
    \cup {<<>>, Hmac(s, b), Sign(s, b) \o <<"z">>,
          Prefix \o SubSeq(Hmac(s, b), 1, 2),
          OtherPrefix \o Hmac(s, b)}
    \cup {Sign(s, b) \o <<"0">>, Sign(s, b) \o <<"0", "0">>}

NoCheck == [rawBody |-> NoBody, signature |-> <<>>, secret |-> "",
            done |-> FALSE, valid |-> FALSE, error |-> ""]

CheckInputs ==
    UNION {{[rawBody |-> b, signature |-> sig, secret |-> s,
             done |-> FALSE, valid |-> FALSE, error |-> ""] :
               sig \in SignaturesUnder(s, b)} :
                   s \in Secrets \cup {EmptySecret}, b \in Bodies}

(* validateWebhookSignature is applied to the arguments drawn. *)
Validate ==
    /\ check # NoCheck
    /\ ~check.done
    /\ LET r == validateWebhookSignature(check.rawBody, check.signature, check.secret)
       IN  check' = [check EXCEPT !.done = TRUE, !.valid = r.valid, !.error = r.error]
    /\ UNCHANGED <<secret, gwChan, gwConn, gwProc, exitCode, health, closeLog,
                   nextId, resp, audit, lastOp, brokerVars, workerVars>>

(***************************************************************************)
(* Specifications                                                          *)
(***************************************************************************)
InitCommon ==
    /\ gwChan = "null"
    /\ gwConn = "null"
    /\ gwProc = "starting"
    /\ exitCode = [p \in Processes |-> NoExit]
    /\ health = NoHealth
    /\ closeLog = NoClose
    /\ nextId = 0
    /\ queue = <<>>
    /\ unacked = [c \in Consumers |-> {}]
    /\ worker = [c \in Consumers |-> "down"]
    /\ calls = [c \in Consumers |-> {}]
    /\ acked = {}
    /\ dead = {}
    /\ lost = {}
    /\ failures = [i \in Ids |-> 0]
    /\ lastSeen = [i \in Ids |-> -1]
    /\ lastOp = NoOp
    /\ stops = 0
    /\ resp = NoResp

Init == secret = SecretA /\ audit = FALSE /\ check = NoCheck /\ InitCommon

InitRetry == secret = SecretA /\ audit = TRUE /\ check = NoCheck /\ InitCommon

InitGateway == secret = SecretA /\ audit = FALSE /\ check = NoCheck /\ InitCommon

InitValidator ==
    secret = SecretA /\ audit = FALSE /\ check \in CheckInputs /\ InitCommon

ValidatorNext == Validate

(* The handler from its start to its exit and the workers' start, with the *)
(* traffic that follows a start.                                           *)
LifecycleNext ==
    \/ GwStart
    \/ \E f \in ConnectStages : GwStartFails(f)
    \/ GwConnectionClosed
    \/ GwChannelClosed
    \/ Health
    \/ GwShutdown
    \/ GwExit
    \/ \E req \in SignedRequests : WebhookPost(req, "ok", TRUE)
    \/ \E c \in Consumers : WorkerStart(c)
    \/ \E c \in Consumers, f \in ConnectStages : WorkerStartFails(c, f)
    \/ \E c \in Consumers : Deliver(c)
    \/ \E c \in Consumers : \E m \in calls[c] : \E biz \in ProcessorOutcomes :
          HandlerDone(c, m, biz)

GatewayNext ==
    \/ GwStart
    \/ GwConnectionClosed
    \/ \E req \in Requests : WebhookPost(req, "ok", TRUE)
    \/ \E req \in Requests, kept \in BOOLEAN : WebhookPost(req, "full", kept)

Next ==
    \/ GwStart
    \/ \E req \in SignedRequests : WebhookPost(req, "ok", TRUE)
    \/ \E h \in ForeignHeaders, p \in ForeignPayloads : ForeignPublish(h, p)
    \/ \E c \in Consumers : WorkerStart(c)
    \/ \E c \in Consumers : Deliver(c)
    \/ \E c \in Consumers : \E m \in calls[c] : \E biz \in ProcessorOutcomes :
          HandlerDone(c, m, biz)
    \/ \E c \in Consumers : WorkerShutdown(c)
    \/ \E c \in Consumers : WorkerExit(c)
    \/ \E c \in Consumers : WorkerCrash(c)

Spec == Init /\ [][Next]_vars

RetrySpec == InitRetry /\ [][Next]_vars

(* The broker keeps delivering to a consumer that is ready, a handler call *)
(* settles, a worker that is down is restarted, shutdown() runs to its     *)
(* exit.  Nothing obliges a processor to succeed.                          *)
Fairness ==
    \A c \in Consumers :
        /\ WF_vars(Deliver(c))
        /\ WF_vars(\E m \in calls[c] : \E biz \in ProcessorOutcomes : HandlerDone(c, m, biz))
        /\ WF_vars(WorkerStart(c))
        /\ WF_vars(WorkerExit(c))

FairSpec == Init /\ [][Next]_vars /\ Fairness

GatewaySpec == InitGateway /\ [][GatewayNext]_vars

LifecycleSpec == Init /\ [][LifecycleNext]_vars

ValidatorSpec == InitValidator /\ [][ValidatorNext]_vars

(***************************************************************************)
(* Properties of the handler (GatewaySpec)                                 *)
(***************************************************************************)
Answered == resp.code # 0
WellFormed(req) ==
    req.signature # <<>> /\ req.event_type # "" /\ req.rawBody # NoBody
Authentic(req) ==
    validateWebhookSignature(req.rawBody, req.signature, secret).valid

(* C1: a request that reaches the validator and fails it is answered 403   *)
(* with no publish call, and every envelope the handler put on the queue   *)
(* comes with a body and signature header that validate against the        *)
(* configured secret.                                                      *)
C1_NoUnauthenticatedPublish ==
    /\ (Answered /\ WellFormed(resp.req) /\ ~Authentic(resp.req))
          => (resp.code = 403 /\ resp.calls = 0 /\ ~resp.sent)
    /\ \A i \in 1..Len(queue) :
          queue[i].src = "gateway" =>
             validateWebhookSignature(queue[i].payload, queue[i].signature, secret).valid

C1_Witness ==
    /\ resp.code = 403
    /\ resp.req.signature = Sign(SecretB, BodyNotification)
    /\ Len(queue) = 1

(* C2: a well-formed, authentic request with a JSON body whose publish the *)
(* broker accepts makes one publish call and is answered 200 with the id   *)
(* of the envelope that is now the one and only entry of the queue with    *)
(* that id; the envelope has retry_count 0.                                *)
C2_AcceptedReply ==
    (/\ Answered /\ WellFormed(resp.req) /\ Authentic(resp.req)
     /\ JsonOk(resp.req.rawBody)
     /\ resp.chan = "open" /\ resp.send = "ok")
    => /\ resp.code = 200
       /\ resp.calls = 1
       /\ resp.envelope.retry_count = 0
       /\ resp.message_id = resp.envelope.id
       /\ Cardinality({i \in 1..Len(queue) : queue[i].id = resp.message_id}) = 1
       /\ \A i \in 1..Len(queue) :
             queue[i].id = resp.message_id =>
                /\ queue[i].retry_count = 0
                /\ queue[i].payload = resp.req.rawBody
                /\ queue[i].event_type = resp.req.event_type

C2_Witness ==
    /\ resp.code = 200
    /\ resp.message_id = 2
    /\ Len(queue) = 2

Valid(req) == WellFormed(req) /\ Authentic(req) /\ JsonOk(req.rawBody)

(* C12: a valid request whose publish returned false (the channel was open *)
(* and its write buffer full) is answered 503 and not 200, after one       *)
(* publish call.                                                           *)
C12_PublishFalseIs503 ==
    (Answered /\ Valid(resp.req) /\ resp.chan = "open" /\ resp.send = "full")
    => (resp.code = 503 /\ resp.calls = 1 /\ resp.message_id = 0)

C12_Witness ==
    /\ resp.code = 503
    /\ resp.send = "full"
    /\ resp.calls = 1
    /\ nextId = 2

(* C13: a valid request that finds the channel unusable at publish time    *)
(* is answered 503.                                                        *)
C13_UnusableChannelIs503 ==
    (Answered /\ Valid(resp.req) /\ resp.chan # "open") => resp.code = 503

(* C14: a request without the event-type header is answered 400 and makes  *)
(* no publish call, whatever its signature header and body.                *)
C14_MissingEventTypeIs400 ==
    (Answered /\ resp.req.event_type = "")
    => (resp.code = 400 /\ resp.calls = 0 /\ ~resp.sent)

C14_Witness ==
    /\ resp.code = 400
    /\ resp.req.event_type = ""
    /\ resp.req.signature = Sign(SecretA, BodyNotification)
    /\ resp.req.rawBody = BodyNotification
    /\ resp.chan = "open"
    /\ queue = <<>>

(* C24: a request with both headers and a valid signature whose body is    *)
(* not JSON is answered 500 and makes no publish call.                     *)
C24_UnparsableBodyIs500 ==
    (Answered /\ WellFormed(resp.req) /\ Authentic(resp.req)
     /\ resp.req.rawBody = BodyJunk)
    => (resp.code = 500 /\ resp.calls = 0 /\ ~resp.sent
        /\ resp.envelope = NoEnvelope)

C24_Witness ==
    /\ resp.code = 500
    /\ resp.req.rawBody = BodyJunk
    /\ resp.req.signature = Sign(SecretA, BodyJunk)
    /\ resp.req.event_type = "notification"
    /\ resp.chan = "open"
    /\ resp.ran

HasRest(req) == req.event_type # "" /\ req.rawBody # NoBody

(* C25: of the requests that carry the event-type header and a body, one   *)
(* whose signature header is present and does not validate is answered     *)
(* 403, one without signature header is answered 400; neither makes a      *)
(* publish call.                                                           *)
C25_SignatureErrors ==
    (Answered /\ HasRest(resp.req) /\ ~Authentic(resp.req))
    => /\ resp.calls = 0 /\ ~resp.sent
       /\ resp.code = IF resp.req.signature = <<>> THEN 400 ELSE 403

C25_Witness ==
    /\ resp.code = 400
    /\ resp.req.signature = <<>>
    /\ resp.req.event_type = "notification"
    /\ resp.req.rawBody = BodyNotification
    /\ resp.chan = "open"
    /\ nextId = 1

(* C25 as stated: ... and one without signature header is answered 403 too. *)
C25_AllAuthErrors403 ==
    (Answered /\ HasRest(resp.req) /\ ~Authentic(resp.req)) => resp.code = 403

(* C33: the checks are applied in the order signature header, event-type   *)
(* header, raw body, signature, JSON parse, publish, and the first that    *)
(* fails decides the reply: the validator is not run when a header or the  *)
(* body is missing, and a request whose signature does not validate is     *)
(* answered 403 whether or not its body parses.                            *)
C33_CheckOrder ==
    Answered
    => LET req == resp.req
       IN  /\ req.signature = <<>>
                => (resp.code = 400 /\ ~resp.ran /\ resp.calls = 0)
           /\ (req.signature # <<>> /\ req.event_type = "")
                => (resp.code = 400 /\ ~resp.ran /\ resp.calls = 0)
           /\ (req.signature # <<>> /\ req.event_type # "" /\ req.rawBody = NoBody)
                => (resp.code = 500 /\ ~resp.ran /\ resp.calls = 0)
           /\ WellFormed(req) => resp.ran
           /\ (WellFormed(req) /\ ~Authentic(req))
                => (resp.code = 403 /\ resp.calls = 0)
           /\ (WellFormed(req) /\ Authentic(req) /\ req.rawBody = BodyJunk)
                => (resp.code = 500 /\ resp.calls = 0)
           /\ (WellFormed(req) /\ Authentic(req) /\ req.rawBody # BodyJunk)
                => (resp.calls = 1 /\ resp.code \in {200, 500, 503})

C33_Witness ==
    /\ resp.code = 403
    /\ resp.ran
    /\ resp.req.rawBody = BodyJunk
    /\ resp.req.signature = Sign(SecretB, BodyJunk)
    /\ resp.req.event_type = "notification"
    /\ resp.chan = "open"
    /\ nextId = 1

(* C34: every request is answered with one of the statuses 200, 400, 403,  *)
(* 500 and 503, and the status is 200 exactly when a publish call was made *)
(* for the request and returned true.                                      *)
Statuses == {200, 400, 403, 500, 503}

C34_OneReplyPerRequest ==
    /\ resp # NoResp => resp.code \in Statuses
    /\ resp.code = 200
          <=> (resp.calls = 1 /\ publish(resp.chan, resp.send) = "true")
    /\ resp.code = 200 <=> resp.message_id # 0

C34_Witness ==
    /\ resp.code = 200
    /\ resp.calls = 1
    /\ resp.message_id = 2
    /\ lost = {1}
    /\ Len(queue) = 1

(***************************************************************************)
(* Properties of the delivery protocol                                     *)
(***************************************************************************)
Held(q, u) == {q[i].id : i \in 1..Len(q)} \cup UNION {IdsOf(u[c]) : c \in Consumers}
Failed(handler) == handler \in {"threw", "not_called"}
Present == {queue[i] : i \in 1..Len(queue)} \cup UNION {unacked[c] : c \in Consumers}
FromGateway(id) == \E m \in Present : m.id = id /\ m.src = "gateway"

(* C3: an envelope the handler published whose handling has failed        *)
(* max_retries + 1 times has been rejected without requeue and is with the *)
(* broker no more.                                                         *)
C3_DeadLetterAfterFour ==
    \A id \in Ids :
        (failures[id] >= MaxRetries + 1 /\ FromGateway(id))
           => (id \in dead /\ id \notin Held(queue, unacked))

(* C4: a delivery that failed with retry count n and was requeued sits in  *)
(* the queue with retry count n + 1 in its delivery metadata.              *)
C4_RequeueRecordsIncrement ==
    lastOp.kind = "requeue" =>
        \A i \in 1..Len(queue) :
            (queue[i].id = lastOp.id /\ queue[i].src = "gateway")
               => RetryCount(queue[i]) = lastSeen[lastOp.id] + 1

(* C5: every envelope the handler published is eventually acknowledged or  *)
(* dead-lettered.                                                          *)
C5_EveryEnvelopeTerminates ==
    \A id \in Ids : FromGateway(id) ~> (id \in acked \cup dead)

(* C6: an envelope is acknowledged only by the step in which its           *)
(* outstanding handler call returned without error, it is discarded only   *)
(* by a step in which its handling failed with the retry count at the      *)
(* maximum, it leaves the broker in no other way, and once acknowledged it *)
(* is neither queued nor delivered again.                                  *)
C6_Step ==
    /\ \A id \in acked' \ acked :
          /\ id \in CallIds
          /\ lastOp'.kind = "ack" /\ lastOp'.id = id /\ lastOp'.handler = "returned"
    /\ \A id \in dead' \ dead :
          /\ lastOp'.kind = "discard" /\ lastOp'.id = id /\ Failed(lastOp'.handler)
          /\ lastSeen'[id] >= MaxRetries
    /\ \A id \in Held(queue, unacked) \ Held(queue', unacked') :
          id \in (acked' \ acked) \cup (dead' \ dead)

C6_AtLeastOnce ==
    /\ [][C6_Step]_vars
    /\ [](\A id \in acked : id \notin Held(queue, unacked))

C6_Witness ==
    /\ lastOp.kind = "ack"
    /\ lastOp.id \in acked
    /\ \E id \in dead : lastSeen[id] = MaxRetries

C8_Step ==
    \A id \in Ids : lastSeen[id] # -1 => lastSeen'[id] >= lastSeen[id]

C8_RetryCountBounded ==
    /\ [][C8_Step]_vars
    /\ [](lastOp.kind = "requeue" => lastSeen[lastOp.id] < MaxRetries)

C8_Witness ==
    /\ lastOp.kind = "deliver"
    /\ \E m \in unacked[lastOp.c] :
          m.id = lastOp.id /\ m.redelivered /\ RetryCount(m) = MaxRetries - 1
    /\ \E id \in dead : lastSeen[id] = MaxRetries

(* C9: when a worker stops (crash or channel close) while it holds an      *)
(* unacknowledged delivery, the envelope is back in the queue, and it is   *)
(* eventually delivered again.                                             *)
C9_ReturnedToQueue ==
    (lastOp.kind = "stop" /\ lastOp.id # 0) => lastOp.id \in QueueIds

C10_Step ==
    /\ \A c \in Consumers :
          Cardinality(unacked'[c]) > Cardinality(unacked[c])
             => calls'[c] = calls[c] \cup (unacked'[c] \ unacked[c])
    /\ lastOp'.handler = "not_called"
          => (queue # <<>> /\ ~JsonOk(Head(queue).payload))

C10_OneInFlight ==
    \A c \in Consumers :
        /\ Cardinality(unacked[c]) <= 1
        /\ Cardinality(calls[c]) <= 1
        /\ worker[c] = "running" => calls[c] = unacked[c]

C11_ShutdownDrains ==
    /\ \A c \in Consumers : worker[c] = "closing" => calls[c] = {}
    /\ lastOp.kind # "unresolved"

(* C15: once the connection has dropped isConnected() is false, and a      *)
(* GET /health answered while the connection was down replied 503,         *)
(* "degraded", queue_connected = false.                                    *)
C15_HealthReportsDrop ==
    /\ gwConn = "closed" => ~isConnected(GwClient)
    /\ health.client.connection = "closed"
          => (health.code = 503 /\ health.status = "degraded"
              /\ ~health.queue_connected)

FailedExit(code) == code # NoExit /\ code # 0
ClientStates == {"null", "open", "closed"}
Clients == [connection : ClientStates, channel : ClientStates]

(* C16: a connect() that fails throws, whatever the stage it fails at, and *)
(* start() then neither listens nor consumes; a process goes from starting *)
(* straight to its exit only with a non-zero code; a handler that failed   *)
(* to start has answered no request, a worker that failed to start holds   *)
(* no delivery; requests are answered only by a listening handler, whose   *)
(* connect() has completed, and deliveries are taken only by a running     *)
(* worker.                                                                 *)
C16_Step ==
    /\ (gwProc = "starting" /\ gwProc' = "exited") => FailedExit(exitCode'[Handler])
    /\ (resp' # resp \/ health' # health) => gwProc = "listening"
    /\ \A c \in Consumers :
          /\ (worker[c] = "down" /\ worker'[c] = "down" /\ exitCode'[c] # exitCode[c])
                => (FailedExit(exitCode'[c]) /\ calls'[c] = {} /\ unacked'[c] = {})
          /\ (lastOp' # lastOp /\ lastOp'.c = c) => worker[c] = "running"

C16_Inv ==
    /\ \A f \in ConnectStages :
          connect(f).threw /\ ~start(f).serving /\ FailedExit(start(f).exit)
    /\ FailedExit(exitCode[Handler])
          => (gwProc = "exited" /\ resp = NoResp /\ health = NoHealth)
    /\ gwProc = "listening" => isConnected(GwClient)
    /\ \A c \in Consumers :
          FailedExit(exitCode[c])
             => (worker[c] = "down" /\ calls[c] = {} /\ unacked[c] = {})

C16_FailFastStartup == []C16_Inv /\ [][C16_Step]_vars

C16_Witness ==
    /\ gwProc = "exited"
    /\ exitCode[Handler] = 1
    /\ gwConn = "open"
    /\ gwChan = "null"
    /\ exitCode["w1"] = 1
    /\ worker["w2"] = "running"

(* C17: close() does not throw in any state of the client, a close() that  *)
(* follows a close() leaves the client as it found it, and close() applied *)
(* to the outcome of close() changes nothing.                              *)
C17_CloseIdempotentTotal ==
    /\ \A cl \in Clients :
          /\ ~close(cl).threw
          /\ close(close(cl).client).client = close(cl).client
    /\ closeLog.called
          => /\ ~closeLog.threw
             /\ closeLog.repeat => closeLog.after = closeLog.before
             /\ close(closeLog.after).client = closeLog.after

C17_Witness ==
    /\ closeLog.repeat
    /\ closeLog.before = Client("closed", "closed")
    /\ closeLog.after = closeLog.before
    /\ gwProc = "stopping"

(* C18: close() releases the channel before the connection, and a          *)
(* connection that was open when close() was called is closed when it      *)
(* returns.                                                                *)
C18_ConnectionAlwaysReleased ==
    closeLog.called
       => /\ closeLog.released \in {<<>>, <<"channel">>, <<"connection">>,
                                    <<"channel", "connection">>}
          /\ closeLog.before.connection = "open"
                => closeLog.after.connection = "closed"

(***************************************************************************)
(* Properties of the validator (ValidatorSpec)                             *)
(***************************************************************************)
(* C19: for every body B and secret S, the header "sha256=" followed by    *)
(* the hex digest of B under S validates against B and S.                  *)
C19_SignedPairValid ==
    (check.done /\ check.signature = Sign(check.secret, check.rawBody))
    => (check.valid /\ check.error = "")

C19_Witness ==
    /\ check.done
    /\ check.valid
    /\ check.secret = SecretB
    /\ check.rawBody = BodyJunk
    /\ check.signature = Sign(SecretB, BodyJunk)

(* the digest of the signed pair with one bit inverted, or the digest of a *)
(* body other than the one presented *)
Mutated(c) ==
    \/ \E k \in DigestBits :
          c.signature = Prefix \o FlipBit(Hmac(c.secret, c.rawBody), k)
    \/ \E b2 \in Bodies \ {c.rawBody} : c.signature = Sign(c.secret, b2)

(* C20: for every body B and secret S, a header whose digest differs from  *)
(* the right one in one bit, and a body other than the one that was        *)
(* signed, are refused as a signature mismatch.                            *)
C20_MutationIsMismatch ==
    (check.done /\ Mutated(check))
    => (~check.valid /\ check.error = ErrMismatch)

C20_Witness ==
    /\ check.done
    /\ check.error = ErrMismatch
    /\ check.secret = SecretB
    /\ check.rawBody = BodyUser
    /\ check.signature = Prefix \o FlipBit(Hmac(SecretB, BodyUser), 1)

(* C21: a signature header that is empty or does not start with sha256= is *)
(* refused with the format error, and so it is with every secret and every *)
(* body.                                                                   *)
C21_MalformedHeader ==
    (check.done /\ (check.signature = <<>>
                     \/ Len(check.signature) < PrefixLen
                     \/ SubSeq(check.signature, 1, PrefixLen) # Prefix))
    => /\ ~check.valid
       /\ check.error = ErrFormat
       /\ \A s \in Secrets, b \in Bodies :
             validateWebhookSignature(b, check.signature, s)
                = [valid |-> FALSE, error |-> ErrFormat]

C21_Witness ==
    /\ check.done
    /\ check.error = ErrFormat
    /\ check.signature = Hmac(SecretB, BodyUser)
    /\ check.secret = SecretB

(***************************************************************************)
(* Properties of the router                                                *)
(***************************************************************************)
Settled == lastOp.handler \in {"returned", "threw"}

(* C22: a handler call for an event type no processor is registered for    *)
(* returns without error, the callback takes its ack branch, and the step  *)
(* is an ack unless the worker's channel was closed under the call; it is  *)
(* never a requeue or a discard.                                           *)
C22_UnmatchedTypeAcked ==
    (Settled /\ ~IsNotification(lastOp))
    => /\ lastOp.handler = "returned"
       /\ lastOp.decision = "ack"
       /\ lastOp.kind \in {"ack", "unresolved"}
       /\ lastOp.kind = "ack" => lastOp.id \in acked \ (dead \cup Held(queue, unacked))

C22_Witness ==
    /\ lastOp.kind = "ack"
    /\ lastOp.event_type = "user_created"
    /\ lastOp.handler = "returned"
    /\ lastOp.id \in acked

(* C23: a route call invokes at most one processor, once, and it ends in   *)
(* an error exactly when the processor it invoked threw.                   *)
C23_RouterNoRetry ==
    Settled
    => /\ Len(lastOp.invoked) <= 1
       /\ lastOp.invoked = <<>> <=> lastOp.proc = "none"
       /\ lastOp.handler = "threw" <=> lastOp.proc = "throw"

C23_Witness ==
    /\ lastOp.handler = "threw"
    /\ lastOp.proc = "throw"
    /\ lastOp.invoked = <<"processNotificationEvent">>
    /\ lastOp.kind = "requeue"

StartsWithUser(t) == t \in {"user_created"}

(* C28: every event is dispatched to exactly one processor: a user_ event  *)
(* to processUserEvent, a notification to processNotificationEvent, any    *)
(* other event to processGenericEvent.                                     *)
C28_DocumentedRouting ==
    Settled
    => lastOp.invoked =
          (IF StartsWithUser(lastOp.event_type) THEN <<"processUserEvent">>
           ELSE IF lastOp.event_type = "notification"
                THEN <<"processNotificationEvent">>
                ELSE <<"processGenericEvent">>)

(***************************************************************************)
(* Properties of order, envelope and retry policy                          *)
(***************************************************************************)
(* the step hands envelope id to a consumer *)
Taken(id) ==
    /\ lastOp' # lastOp
    /\ lastOp'.id = id
    /\ lastOp'.handler \in {"called", "not_called"}

NeverRan(c) == worker[c] = "down" /\ exitCode[c] = NoExit

(* C26: ids are allotted in the order of publication.  An envelope is      *)
(* handed over for the first time only when every envelope published       *)
(* before it has been handed over, and an envelope is handed over again,   *)
(* after later ones, only as a redelivery of a requeued message.           *)
C26_Step ==
    \A id \in Ids :
        Taken(id)
           => /\ queue # <<>> /\ Head(queue).id = id
              /\ IF lastSeen[id] = -1
                 THEN \A j \in 1..(id - 1) : lastSeen[j] # -1
                 ELSE Head(queue).redelivered

Body(m) == [id |-> m.id, event_type |-> m.event_type, payload |-> m.payload,
            signature |-> m.signature, retry_count |-> m.retry_count]
PresentIn(q, u) == {q[i] : i \in 1..Len(q)} \cup UNION {u[c] : c \in Consumers}

(* C27: no two messages with the broker share an id, a step of the worker  *)
(* allots no id, and the body of an envelope (id, event, retry_count       *)
(* field) is the same after every step for as long as the broker holds it. *)
C27_Step ==
    /\ \A m \in PresentIn(queue, unacked), m2 \in PresentIn(queue', unacked') :
          m.id = m2.id => Body(m2) = Body(m)
    /\ lastOp'.kind # "none" => nextId' = nextId

C27_Inv ==
    \A m \in Present, m2 \in Present : m.id = m2.id => m = m2

C29_Step ==
    \A id \in Ids : (lastOp.kind = "requeue" /\ lastOp.id = id) => ~Taken(id)

C29_BackoffBeforeRedelivery == [][C29_Step]_vars

(* C30: the retry count of a delivery is the value of its x-retry-count    *)
(* header, 0 when it has none; a failed delivery is rejected with requeue  *)
(* exactly when that count is below the maximum and rejected without       *)
(* requeue otherwise.                                                      *)
C30_DecisionByHeader ==
    /\ \A m \in Present :
          lastSeen[m.id] # -1
             => lastSeen[m.id] = (IF m.hdr = NoHdr THEN 0 ELSE m.hdr)
    /\ (Failed(lastOp.handler) /\ lastOp.kind # "unresolved")
          => /\ lastOp.kind \in {"requeue", "discard"}
             /\ lastOp.kind = "requeue" <=> lastSeen[lastOp.id] < MaxRetries
             /\ lastOp.kind = "discard" <=> lastOp.id \in dead
             /\ lastOp.kind = "requeue" <=> lastOp.id \in QueueIds

C30_Witness ==
    /\ lastOp.kind = "discard"
    /\ lastOp.handler = "threw"
    /\ lastSeen[lastOp.id] = MaxRetries
    /\ failures[lastOp.id] = 1
    /\ \E id \in QueueIds : lastSeen[id] = 0 /\ failures[id] >= 1

(* C31: every delivery whose callback came to its end was resolved by      *)
(* exactly one broker call among ack, reject with requeue and reject       *)
(* without requeue: the callback made one call, and the call took effect.  *)
CallbackEnded == lastOp.handler \in {"returned", "threw", "not_called"}

C31_ExactlyOneBrokerCall ==
    CallbackEnded
       => /\ Len(lastOp.attempted) = 1
          /\ lastOp.kind = lastOp.attempted[1]
          /\ lastOp.kind \in {"ack", "requeue", "discard"}

(* C32: a delivered message whose body does not parse as JSON never        *)
(* reaches the handler and is never acknowledged; the callback makes one   *)
(* broker call for it, reject with requeue while the header retry count is *)
(* below the maximum and reject without requeue otherwise.                 *)
Unparsable(m) == m.payload = BodyJunk

C32_UnparsableBodyRejected ==
    /\ \A c \in Consumers : \A m \in calls[c] \cup unacked[c] : ~Unparsable(m)
    /\ \A m \in Present : Unparsable(m) => m.id \notin acked
    /\ lastOp.handler = "not_called"
          => /\ lastOp.kind =
                  (IF lastSeen[lastOp.id] < MaxRetries THEN "requeue" ELSE "discard")
             /\ lastOp.attempted = <<lastOp.kind>>
             /\ lastOp.proc = "none"
             /\ lastOp.id \notin acked
             /\ lastOp.kind = "requeue"
                   => \E i \in 1..Len(queue) :
                         queue[i].id = lastOp.id /\ Unparsable(queue[i])
             /\ lastOp.kind = "discard" => lastOp.id \in dead

C32_Witness ==
    /\ lastOp.handler = "not_called"
    /\ lastOp.kind = "requeue"
    /\ lastSeen[lastOp.id] = MaxRetries - 1
    /\ \E id \in dead : id # lastOp.id /\ lastSeen[id] = MaxRetries

(* C35: the validator returns valid only for a header that is the prefix   *)
(* followed by exactly the hex digest of the body under the secret.        *)
C35_ValidOnlyExactDigest ==
    (check.done /\ check.valid)
       => check.signature = Prefix \o Hmac(check.secret, check.rawBody)

(* C36: isConnected() is true only while the latest connect() has          *)
(* completed and close() has not been called: it is false after a          *)
(* connect() that threw, at whichever step, and false after close().       *)
C36_ConnectedOnlyAfterConnect ==
    /\ (gwProc = "exited" /\ exitCode[Handler] = StartFailureExit)
          => ~isConnected(GwClient)
    /\ closeLog.called => ~isConnected(closeLog.after)

(* C37: with an empty secret the validator never returns valid, whatever   *)
(* the body and the signature header.                                      *)
C37_EmptySecretNeverValid ==
    (check.done /\ check.secret = EmptySecret) => ~check.valid

====
